---- MODULE Spec2Model ----
(***************************************************************************)
(* A model of the nbs-rs codec: the header, note-grid, layer-table and     *)
(* custom-instrument encoders and decoders, over byte streams, and the     *)
(* life of one song (construction, edits, update, encode, decode).         *)
(*                                                                         *)
(* Conventions.  Option<T> is a sequence of length <= 1: None is <<>> and  *)
(* Some(x) is <<x>>.  A byte stream is a sequence over 0..255.  A          *)
(* HashMap<i16, Note> is a function whose domain is the set of its keys.   *)
(* A String is the sequence of its bytes.                                  *)
(***************************************************************************)
EXTENDS Integers, Sequences, FiniteSets, TLC

VARIABLES nbs, buf, enc, dec, op, target, scan

vars == <<nbs, buf, enc, dec, op, target, scan>>

None == <<>>
Some(x) == <<x>>

\* ---------------------------------------------------------------- bounds

\* Most layers a song is given.
MaxLayers == 2
\* Largest tick a note is inserted at.
MaxTick == 2
\* How many ticks below zero a note may be inserted at (the key is an i16).
NegTicks == 1
\* Most notes held by the grid.
MaxNotes == 2
\* Most public optional header fields the caller sets to None.
MaxCleared == 1
\* Most entries of the custom-instrument table of a file.
MaxCustom == 1
\* Newest version of the extended format the crate supports.
MaxVersion == 4

\* ------------------------------------------------------- fixed-width ints

\* The value of an i8 / i16 whose bits are those of x.
ToI8(x) == LET u == x % 256 IN IF u >= 128 THEN u - 256 ELSE u
ToI16(x) == LET u == x % 65536 IN IF u >= 32768 THEN u - 65536 ELSE u

\* write_i8, write_i16::<LittleEndian>, write_i32::<LittleEndian>
write_i8(v) == << v % 256 >>
write_i16(v) == LET u == v % 65536 IN << u % 256, u \div 256 >>
write_i32(v) ==
    LET lo == v % 65536
        hi == ((v - lo) \div 65536) % 65536
    IN << lo % 256, lo \div 256, hi % 256, hi \div 256 >>

\* WriteStringExt::write_string: an i32 length, then the bytes.
write_string(s) == write_i32(Len(s)) \o s

BoolByte(b) == IF b THEN 1 ELSE 0

\* ------------------------------------------------------------- the reader

\* A read returns [v, p, e]: the value, the next position (1-based) and "Ok"
\* or the failure that ended the decode.  A read after a failure keeps it.
Failed(c, e) == [v |-> 0, p |-> c.p, e |-> e]

read_u8(b, c) ==
    IF c.e # "Ok" THEN Failed(c, c.e)
    ELSE IF c.p > Len(b) THEN Failed(c, "IoError")
    ELSE [v |-> b[c.p], p |-> c.p + 1, e |-> "Ok"]

read_i8(b, c) ==
    LET r == read_u8(b, c) IN [r EXCEPT !.v = ToI8(r.v)]

read_i16(b, c) ==
    IF c.e # "Ok" THEN Failed(c, c.e)
    ELSE IF c.p + 1 > Len(b) THEN Failed(c, "IoError")
    ELSE [v |-> ToI16(b[c.p] + 256 * b[c.p + 1]), p |-> c.p + 2, e |-> "Ok"]

read_i32(b, c) ==
    IF c.e # "Ok" THEN Failed(c, c.e)
    ELSE IF c.p + 3 > Len(b) THEN Failed(c, "IoError")
    ELSE [v |-> 65536 * ToI16(b[c.p + 2] + 256 * b[c.p + 3]) + b[c.p] + 256 * b[c.p + 1],
          p |-> c.p + 4, e |-> "Ok"]

\* A read the decoder makes only for some formats: `if cond { Some(read) }
\* else { None }`.  Where it is not made, the reader stays where it is.
Skip(c) == [v |-> 0, p |-> c.p, e |-> c.e]
read_i8_if(cond, b, c) == IF cond THEN read_i8(b, c) ELSE Skip(c)
read_i16_if(cond, b, c) == IF cond THEN read_i16(b, c) ELSE Skip(c)

\* String::from_utf8 on the bytes read.  The streams of this model hold
\* one-byte characters only, so a byte >= 128 is never the start of a
\* well-formed sequence here.
ValidUtf8(s) == \A i \in 1..Len(s) : s[i] < 128

\* ReadStringExt::read_string.  A negative length is cast to usize and
\* Vec::with_capacity panics (capacity overflow); a length longer than the
\* rest of the stream fails read_exact.
read_string(b, c) ==
    LET l == read_i32(b, c)
    IN  IF l.e # "Ok" THEN [v |-> <<>>, p |-> l.p, e |-> l.e]
        ELSE IF l.v < 0 THEN [v |-> <<>>, p |-> l.p, e |-> "Panic"]
        ELSE IF l.p + l.v - 1 > Len(b) THEN [v |-> <<>>, p |-> l.p, e |-> "IoError"]
        ELSE LET s == SubSeq(b, l.p, l.p + l.v - 1)
             IN  IF ValidUtf8(s) THEN [v |-> s, p |-> l.p + l.v, e |-> "Ok"]
                 ELSE [v |-> <<>>, p |-> l.p + l.v, e |-> "InvalidString"]

\* ------------------------------------------------------------- the writer

\* WBool writing a zero for an absent flag instead of failing.
WBool_zero(opt) == Some(write_i8(IF opt = None THEN 0 ELSE (IF opt[1] THEN 1 ELSE 0)))

\* One write of an encoder: Some(bytes), or None where the encoder takes
\* .ok_or(NbsError::InvalidFormat)? on an absent field.
W8(opt) == IF opt = None THEN None ELSE Some(write_i8(opt[1]))
W16(opt) == IF opt = None THEN None ELSE Some(write_i16(opt[1]))
WBool(opt) == IF opt = None THEN None ELSE Some(write_i8(BoolByte(opt[1])))

\* The writes of an encoder in order: the bytes the writer received and how
\* the encoder returned.  The first absent field ends it with InvalidFormat;
\* what was written before stays written.
RECURSIVE WriteAll(_, _)
WriteAll(items, acc) ==
    IF items = <<>> THEN [res |-> "Ok", bytes |-> acc]
    ELSE IF Head(items) = None THEN [res |-> "InvalidFormat", bytes |-> acc]
    ELSE WriteAll(Tail(items), acc \o Head(items)[1])

\* ----------------------------------------------------------------- format

NoteBlockStudio == [new |-> FALSE, v |-> 0]
OpenNoteBlockStudio(v) == [new |-> TRUE, v |-> v]

is_new(f) == f.new
version(f) == IF f.new THEN f.v ELSE 0

Formats == {NoteBlockStudio} \cup {OpenNoteBlockStudio(v) : v \in 1..MaxVersion}

\* ----------------------------------------------------------------- header

\* Header::new
Header_new(format) ==
    [ old_song_length |-> 0,
      version_number |-> Some(version(format)),
      vannila_instrument_count |-> Some(16),
      song_length |-> Some(0),
      layer_count |-> 0,
      song_name |-> <<>>,
      song_author |-> <<>>,
      original_song_author |-> <<>>,
      song_description |-> <<>>,
      song_tempo |-> 1000,
      auto_saving |-> FALSE,
      auto_saving_duration |-> 0,
      time_signature |-> 4,
      minutes_spent |-> 0,
      left_clicks |-> 0,
      right_clicks |-> 0,
      noteblocks_added |-> 0,
      noteblocks_removed |-> 0,
      imported_file_name |-> <<>>,
      is_loop |-> Some(FALSE),
      max_loop_count |-> Some(0),
      loop_start_tick |-> Some(0),
      format |-> format ]

\* The writes of Header::encode(&self, format, writer), in order.
Header_encode_items(h, format) ==
       << Some(write_i16(h.old_song_length)) >>
    \o (IF version(format) > 0
        THEN << W8(h.version_number), W8(h.vannila_instrument_count) >>
        ELSE << >>)
    \o (IF version(format) >= 3 THEN << W16(h.song_length) >> ELSE << >>)
    \o << Some(write_i16(h.layer_count)),
          Some(write_string(h.song_name)),
          Some(write_string(h.song_author)),
          Some(write_string(h.original_song_author)),
          Some(write_string(h.song_description)),
          Some(write_i16(h.song_tempo)),
          Some(write_i8(BoolByte(h.auto_saving))),
          Some(write_i8(h.auto_saving_duration)),
          Some(write_i8(h.time_signature)),
          Some(write_i32(h.minutes_spent)),
          Some(write_i32(h.left_clicks)),
          Some(write_i32(h.right_clicks)),
          Some(write_i32(h.noteblocks_added)),
          Some(write_i32(h.noteblocks_removed)),
          Some(write_string(h.imported_file_name)) >>
    \o (IF version(format) > 0
        THEN << WBool(h.is_loop), W8(h.max_loop_count), W16(h.loop_start_tick) >>
        ELSE << >>)

\* Header::encode
Header_encode(h, format) == WriteAll(Header_encode_items(h, format), <<>>)

\* Whether Header::decode reads the explicit song-length field.
ReadsSongLength(fmt) == is_new(fmt)

\* Header::decode: [v |-> the header, p, e].
Header_decode(b, c0) ==
    LET r1  == read_i16(b, c0)
        r2  == read_i8_if(r1.v = 0, b, r1)
        fmt == IF r1.v # 0 THEN NoteBlockStudio ELSE OpenNoteBlockStudio(r2.v)
        r3  == read_i8_if(is_new(fmt), b, r2)
        r4  == read_i16_if(ReadsSongLength(fmt), b, r3)
        r5  == read_i16(b, r4)
        r6  == read_string(b, r5)
        r7  == read_string(b, r6)
        r8  == read_string(b, r7)
        r9  == read_string(b, r8)
        r10 == read_i16(b, r9)
        r11 == read_i8(b, r10)
        r12 == read_i8(b, r11)
        r13 == read_i8(b, r12)
        r14 == read_i32(b, r13)
        r15 == read_i32(b, r14)
        r16 == read_i32(b, r15)
        r17 == read_i32(b, r16)
        r18 == read_i32(b, r17)
        r19 == read_string(b, r18)
        r20 == read_i8_if(is_new(fmt), b, r19)
        r21 == read_i8_if(is_new(fmt), b, r20)
        r22 == read_i16_if(is_new(fmt), b, r21)
    IN  IF r22.e # "Ok" THEN [v |-> Header_new(NoteBlockStudio), p |-> r22.p, e |-> r22.e]
        ELSE
        [ v |-> [ old_song_length |-> r1.v,
                  version_number |-> IF is_new(fmt) THEN Some(r2.v) ELSE None,
                  vannila_instrument_count |-> IF is_new(fmt) THEN Some(r3.v) ELSE None,
                  song_length |-> IF ReadsSongLength(fmt) THEN Some(r4.v) ELSE None,
                  layer_count |-> r5.v,
                  song_name |-> r6.v,
                  song_author |-> r7.v,
                  original_song_author |-> r8.v,
                  song_description |-> r9.v,
                  song_tempo |-> r10.v,
                  auto_saving |-> (r11.v = 1),
                  auto_saving_duration |-> r12.v,
                  time_signature |-> r13.v,
                  minutes_spent |-> r14.v,
                  left_clicks |-> r15.v,
                  right_clicks |-> r16.v,
                  noteblocks_added |-> r17.v,
                  noteblocks_removed |-> r18.v,
                  imported_file_name |-> r19.v,
                  is_loop |-> IF is_new(fmt) THEN Some(r20.v = 1) ELSE None,
                  max_loop_count |-> IF is_new(fmt) THEN Some(r21.v) ELSE None,
                  loop_start_tick |-> IF is_new(fmt) THEN Some(r22.v) ELSE None,
                  format |-> fmt ],
          p |-> r22.p, e |-> "Ok" ]

\* Header::vannila_instrument_count: [v, e].
vannila_instrument_count(h) ==
    IF ~is_new(h.format) THEN [v |-> 10, e |-> "Ok"]
    ELSE IF h.vannila_instrument_count = None THEN [v |-> 0, e |-> "InvalidFormat"]
    ELSE [v |-> h.vannila_instrument_count[1], e |-> "Ok"]

\* song_ticks taking the stored slot for every extended version.
song_ticks_any(h) ==
    IF ~is_new(h.format) THEN [v |-> Some(h.old_song_length), e |-> "Ok"]
    ELSE IF h.song_length = None THEN [v |-> None, e |-> "InvalidFormat"]
    ELSE [v |-> Some(h.song_length[1]), e |-> "Ok"]

\* Header::song_ticks: [v |-> Option<i16>, e].
song_ticks(h) ==
    IF ~is_new(h.format) THEN [v |-> Some(h.old_song_length), e |-> "Ok"]
    ELSE IF h.format.v >= 3
         THEN IF h.song_length = None THEN [v |-> None, e |-> "InvalidFormat"]
              ELSE [v |-> Some(h.song_length[1]), e |-> "Ok"]
         ELSE [v |-> None, e |-> "Ok"]

\* ------------------------------------------------- instruments and notes

\* An Instrument: a built-in one (its index) or Instrument::Custom(id).
Vanilla(id) == [custom |-> FALSE, id |-> id]
Custom(id) == [custom |-> TRUE, id |-> id]

\* impl Into<i8> for Instrument
Instrument_into(i) == i.id

\* Note::new
Note_new(instrument, key, velocity, panning, pitch) ==
    [instrument |-> instrument, key |-> key, velocity |-> velocity,
     panning |-> panning, pitch |-> pitch]

\* ----------------------------------------------------------------- layers

\* Layer::new
Layer_new ==
    [name |-> <<>>, locked |-> None, volume |-> None, stereo |-> None, notes |-> <<>>]

\* from_format with the lock flag given from version 2 on, like the volume
\* and stereo fields, instead of from version 4.
from_format_lock2(fmt) ==
    [ Layer_new EXCEPT
        !.locked = IF version(fmt) >= 2 THEN Some(FALSE) ELSE None,
        !.volume = IF version(fmt) >= 2 THEN Some(100) ELSE None,
        !.stereo = IF version(fmt) >= 2 THEN Some(100) ELSE None ]

\* Layer::from_format
from_format(format) ==
    [ Layer_new EXCEPT
        !.locked = IF version(format) >= 4 THEN Some(FALSE) ELSE None,
        !.volume = IF version(format) >= 2 THEN Some(100) ELSE None,
        !.stereo = IF version(format) >= 2 THEN Some(100) ELSE None ]

\* The comparison of max_by turned round: the least key of a layer's notes.
MinKey(notes) == CHOOSE t \in DOMAIN notes : \A u \in DOMAIN notes : t <= u

\* max_by over the keys of a layer's notes.
MaxKey(notes) == CHOOSE t \in DOMAIN notes : \A u \in DOMAIN notes : u <= t

\* NoteBlocks::calculate_length: the loop over the layers from layer i on.
RECURSIVE calculate_length_from(_, _, _)
calculate_length_from(layers, i, length) ==
    IF i > Len(layers) THEN length
    ELSE IF DOMAIN layers[i].notes # {} /\ MaxKey(layers[i].notes) > length
         THEN calculate_length_from(layers, i + 1, MaxKey(layers[i].notes))
         ELSE calculate_length_from(layers, i + 1, length)

\* NoteBlocks::calculate_length
calculate_length(layers) == calculate_length_from(layers, 1, 0)

\* ------------------------------------------------------ note grid: encode

\* What NoteBlocks::encode writes for the volume of a layer.  Layer declares
\* the field Option<i8> and the encoder writes it with no alternative, so an
\* absent volume has no byte to write; it is taken as the encoder's other
\* absent fields are (InvalidFormat).
WVolume(layer) == W8(layer.volume)

\* One note record: instrument, key and, from version 4, velocity, panning, pitch.
note_items(note, format) ==
       << Some(write_i8(Instrument_into(note.instrument))), Some(write_i8(note.key)) >>
    \o (IF version(format) >= 4
        THEN << W8(note.velocity), W8(note.panning), W16(note.pitch) >>
        ELSE << >>)

\* NoteBlocks::encode, the loop over the layers of one tick, from layer li
\* (1-based) on.  st = [items, v_cursor, has_jumped_h, h_cursor].
RECURSIVE encode_row(_, _, _, _, _, _)
encode_row(layers, format, note_index, h_jumps, li, st) ==
    IF li > Len(layers) THEN st
    ELSE IF note_index \in DOMAIN layers[li].notes
    THEN LET v_jumps == ToI16((li - 1) - st.v_cursor)
             note == layers[li].notes[note_index]
             first == IF ~st.has_jumped_h THEN << Some(write_i16(h_jumps)) >> ELSE << >>
         IN  encode_row(layers, format, note_index, h_jumps, li + 1,
                 [ items |-> st.items \o first \o << Some(write_i16(v_jumps)) >>
                               \o note_items(note, format),
                   v_cursor |-> ToI16(st.v_cursor + v_jumps),
                   has_jumped_h |-> TRUE,
                   h_cursor |-> IF st.has_jumped_h THEN st.h_cursor
                                ELSE ToI16(st.h_cursor + h_jumps) ])
    ELSE encode_row(layers, format, note_index, h_jumps, li + 1, st)

\* HJumps forgetting the ticks skipped: every tick-jump is 1.
HJumps_one(note_index, h_cursor) == 1

\* let h_jumps = note_index - h_cursor
HJumps(note_index, h_cursor) == ToI16(note_index - h_cursor)

\* NoteBlocks::encode, the loop over the ticks note_index..=last, then the
\* final zero tick-jump.
RECURSIVE encode_ticks(_, _, _, _, _, _)
encode_ticks(layers, format, note_index, last, h_cursor, items) ==
    IF note_index > last THEN items \o << Some(write_i16(0)) >>
    ELSE LET h_jumps == HJumps(note_index, h_cursor)
             row == encode_row(layers, format, note_index, h_jumps, 1,
                        [ items |-> items, v_cursor |-> -1,
                          has_jumped_h |-> FALSE, h_cursor |-> h_cursor ])
         IN  encode_ticks(layers, format, note_index + 1, last, row.h_cursor,
                 IF row.has_jumped_h THEN row.items \o << Some(write_i16(0)) >>
                 ELSE row.items)

\* The last tick the encode loop visits (for note_index in 0..=calculate_length()).
EncodeLoopEnd(layers) == calculate_length(layers)

\* The writes of NoteBlocks::encode for the grid.
grid_items(layers, format) ==
    encode_ticks(layers, format, 0, EncodeLoopEnd(layers), -1, << >>)

\* The stereo byte written from version 3 on instead of from version 2.
WritesStereo_v3(format) == version(format) >= 3

\* if format.version() >= 2 { write the stereo byte }
WritesStereo(format) == version(format) >= 2

\* The writes of NoteBlocks::encode for the layer table, from layer li on.
RECURSIVE layer_table_items(_, _, _)
layer_table_items(layers, format, li) ==
    IF li > Len(layers) THEN << >>
    ELSE    << Some(write_string(layers[li].name)) >>
         \o (IF version(format) >= 4 THEN << WBool(layers[li].locked) >> ELSE << >>)
         \o << WVolume(layers[li]) >>
         \o (IF WritesStereo(format) THEN << W8(layers[li].stereo) >> ELSE << >>)
         \o layer_table_items(layers, format, li + 1)

NoteBlocks_encode_items(layers, format) ==
    grid_items(layers, format) \o layer_table_items(layers, format, 1)

\* NoteBlocks::encode
NoteBlocks_encode(layers, format) == WriteAll(NoteBlocks_encode_items(layers, format), <<>>)

\* ------------------------------------------------------ note grid: decode

\* Classify with the boundary off by one: `>` for `>=`.
Classify_gt(id, count) == IF id > count THEN Custom(id) ELSE Vanilla(id)

\* The tag NoteBlocks::decode gives an instrument id read from the stream.
Classify(id, count) == IF id >= count THEN Custom(id) ELSE Vanilla(id)

\* HashMap::insert
Insert(notes, tick, note) ==
    [t \in DOMAIN notes \cup {tick} |-> IF t = tick THEN note ELSE notes[t]]

\* NoteBlocks::decode, the inner loop: the layer-jumps and note records of one
\* tick.  [v |-> layers, p, e]
RECURSIVE decode_row(_, _, _, _, _, _)
decode_row(b, c, header, tick, layer, layers) ==
    LET j == read_i16(b, c)
    IN  IF j.e # "Ok" THEN [v |-> layers, p |-> j.p, e |-> j.e]
        ELSE IF j.v = 0 THEN [v |-> layers, p |-> j.p, e |-> "Ok"]
        ELSE
        LET layer2 == ToI16(layer + j.v)
            ri == read_i8(b, j)
            count == vannila_instrument_count(header)
            rk == read_i8(b, ri)
            has4 == version(header.format) >= 4
            rv == read_i8_if(has4, b, rk)
            rp == read_i8_if(has4, b, rv)
            rq == read_i16_if(has4, b, rp)
            note == [ instrument |-> Classify(ri.v, count.v),
                      key |-> rk.v,
                      velocity |-> IF has4 THEN Some(rv.v) ELSE None,
                      panning |-> IF has4 THEN Some(rp.v) ELSE None,
                      pitch |-> IF has4 THEN Some(rq.v) ELSE None ]
        IN  IF ri.e # "Ok" THEN [v |-> layers, p |-> ri.p, e |-> ri.e]
            ELSE IF count.e # "Ok" THEN [v |-> layers, p |-> ri.p, e |-> count.e]
            ELSE IF rq.e # "Ok" THEN [v |-> layers, p |-> rq.p, e |-> rq.e]
            ELSE IF layer2 < 0 \/ layer2 >= Len(layers)
                 THEN [v |-> layers, p |-> rq.p, e |-> "Panic"]
            ELSE decode_row(b, rq, header, tick, layer2,
                     [layers EXCEPT ![layer2 + 1].notes = Insert(@, tick, note)])

\* NoteBlocks::decode, the outer loop: the tick-jumps.
RECURSIVE decode_ticks(_, _, _, _, _)
decode_ticks(b, c, header, tick, layers) ==
    LET j == read_i16(b, c)
    IN  IF j.e # "Ok" THEN [v |-> layers, p |-> j.p, e |-> j.e]
        ELSE IF j.v = 0 THEN [v |-> layers, p |-> j.p, e |-> "Ok"]
        ELSE LET tick2 == ToI16(tick + j.v)
                 row == decode_row(b, j, header, tick2, -1, layers)
             IN  IF row.e # "Ok" THEN row
                 ELSE decode_ticks(b, row, header, tick2, row.v)

\* NoteBlocks::decode, the layer table, from layer li on.
RECURSIVE decode_layer_table(_, _, _, _, _)
decode_layer_table(b, c, header, li, layers) ==
    IF li > Len(layers) THEN [v |-> layers, p |-> c.p, e |-> c.e]
    ELSE
    LET v == version(header.format)
        rn == read_string(b, c)
        rl == read_i8_if(v >= 4, b, rn)
        rv == read_i8(b, rl)
        rs == read_i8_if(v >= 2, b, rv)
    IN  IF rs.e # "Ok" THEN [v |-> layers, p |-> rs.p, e |-> rs.e]
        ELSE decode_layer_table(b, rs, header, li + 1,
                 [layers EXCEPT
                    ![li].name = rn.v,
                    ![li].locked = IF v >= 4 THEN Some(rl.v = 1) ELSE @,
                    ![li].volume = Some(rv.v),
                    ![li].stereo = IF v >= 2 THEN Some(rs.v) ELSE @])

\* The layers NoteBlocks::decode allocates before it reads a note.
Preallocate(header) ==
    [i \in 1..(IF header.layer_count > 0 THEN header.layer_count ELSE 0)
        |-> from_format(header.format)]

\* NoteBlocks::decode: [v |-> layers, p, e]
NoteBlocks_decode(b, c, header) ==
    LET grid == decode_ticks(b, c, header, -1, Preallocate(header))
    IN  IF grid.e # "Ok" THEN grid
        ELSE decode_layer_table(b, grid, header, 1, grid.v)

\* ----------------------------------------------------- custom instruments

\* The id CustomInstruments::decode gives the entry at table position id.
CustomId(id, header) == ToI8(id + 16)

\* CustomInstruments::decode, the entries from position id on.
RECURSIVE decode_customs(_, _, _, _, _, _)
decode_customs(b, c, header, id, count, acc) ==
    IF id >= count THEN [v |-> acc, p |-> c.p, e |-> c.e]
    ELSE
    LET rn == read_string(b, c)
        rf == read_string(b, rn)
        rp == read_i8(b, rf)
        rk == read_i8(b, rp)
    IN  IF rk.e # "Ok" THEN [v |-> acc, p |-> rk.p, e |-> rk.e]
        ELSE decode_customs(b, rk, header, id + 1, count,
                 Append(acc, [ instrument |-> Custom(CustomId(id, header)),
                               name |-> rn.v, file_name |-> rf.v,
                               pitch |-> rp.v, press_key |-> (rk.v = 1) ]))

\* CustomInstruments::decode.  A negative count is cast to usize and
\* Vec::with_capacity panics (capacity overflow).
CustomInstruments_decode(b, c, header) ==
    LET rc == read_i8(b, c)
    IN  IF rc.e # "Ok" THEN [v |-> << >>, p |-> rc.p, e |-> rc.e]
        ELSE IF rc.v < 0 THEN [v |-> << >>, p |-> rc.p, e |-> "Panic"]
        ELSE decode_customs(b, rc, header, 0, rc.v, << >>)

\* The writes of CustomInstruments::encode for the entries from i on.
RECURSIVE custom_items(_, _)
custom_items(instruments, i) ==
    IF i > Len(instruments) THEN << >>
    ELSE << Some(write_string(instruments[i].name)),
            Some(write_string(instruments[i].file_name)),
            Some(write_i8(instruments[i].pitch)),
            Some(write_i8(BoolByte(instruments[i].press_key))) >>
         \o custom_items(instruments, i + 1)

\* The writes of CustomInstruments::encode.
CustomInstruments_encode_items(instruments) ==
    << Some(write_i8(Len(instruments))) >> \o custom_items(instruments, 1)

\* ------------------------------------------------------------------- song

\* Nbs::from_componets
from_componets(header, layers, customs) ==
    [header |-> header, layers |-> layers, customs |-> customs]

\* Nbs::format
format(song) == song.header.format

\* Nbs::encode: [res, bytes]
Nbs_encode(song) ==
    WriteAll(   Header_encode_items(song.header, format(song))
             \o NoteBlocks_encode_items(song.layers, format(song))
             \o CustomInstruments_encode_items(song.customs), << >>)

NoSong == from_componets(Header_new(NoteBlockStudio), << >>, << >>)

\* Nbs::decode, once the three parts are read (h, n, k: [v, p, e]).
Nbs_decode_result(h, n, k) ==
    IF k.e = "Ok" THEN [kind |-> "Ok", song |-> from_componets(h.v, n.v, k.v)]
    ELSE [kind |-> k.e, song |-> NoSong]

\* Nbs::decode from the custom instruments on: `?` returns the first failure.
Nbs_decode_customs(b, h, n) ==
    Nbs_decode_result(h, n,
        IF n.e = "Ok" THEN CustomInstruments_decode(b, n, h.v)
        ELSE [v |-> << >>, p |-> n.p, e |-> n.e])

\* Nbs::decode from the note blocks on.
Nbs_decode_noteblocks(b, h) ==
    Nbs_decode_customs(b, h,
        IF h.e = "Ok" THEN NoteBlocks_decode(b, h, h.v)
        ELSE [v |-> << >>, p |-> h.p, e |-> h.e])

\* Nbs::decode: [kind, song], kind "Ok" or how the decode ended.
Nbs_decode(b) == Nbs_decode_noteblocks(b, Header_decode(b, [p |-> 1, e |-> "Ok"]))

\* update refreshing the song length from version 4 on only.
UpdatesSongLength_v4(song) == version(song.header.format) >= 4

\* The header fields Nbs::update sets.
UpdatesSongLength(song) == version(format(song)) >= 3

\* Nbs::update
update(song) ==
    LET len == calculate_length(song.layers)
        h1 == IF UpdatesSongLength(song) THEN [song.header EXCEPT !.song_length = Some(len)]
              ELSE IF version(format(song)) = 0 THEN [song.header EXCEPT !.old_song_length = len]
              ELSE song.header
        h2 == IF version(format(song)) > 0
              THEN [h1 EXCEPT !.version_number = Some(version(format(song)))]
              ELSE h1
    IN  [song EXCEPT !.header = [h2 EXCEPT !.layer_count = ToI16(Len(song.layers))]]

\* ------------------------------------------------------------ input files

\* A header on the wire, field by field in the order Header::decode reads.
WireHeader(h) ==
       write_i16(h.old_song_length)
    \o (IF is_new(h.format)
        THEN write_i8(h.version_number[1]) \o write_i8(h.vannila_instrument_count[1])
             \o write_i16(h.song_length[1])
        ELSE << >>)
    \o write_i16(h.layer_count)
    \o write_string(h.song_name) \o write_string(h.song_author)
    \o write_string(h.original_song_author) \o write_string(h.song_description)
    \o write_i16(h.song_tempo) \o write_i8(BoolByte(h.auto_saving))
    \o write_i8(h.auto_saving_duration) \o write_i8(h.time_signature)
    \o write_i32(h.minutes_spent) \o write_i32(h.left_clicks)
    \o write_i32(h.right_clicks) \o write_i32(h.noteblocks_added)
    \o write_i32(h.noteblocks_removed) \o write_string(h.imported_file_name)
    \o (IF is_new(h.format)
        THEN write_i8(BoolByte(h.is_loop[1])) \o write_i8(h.max_loop_count[1])
             \o write_i16(h.loop_start_tick[1])
        ELSE << >>)

\* The custom-instrument table of a file with k entries.
FileCustoms(k) ==
    [i \in 1..k |-> [ instrument |-> Custom(0), name |-> << 97 >>, file_name |-> << >>,
                      pitch |-> 45, press_key |-> TRUE ]]

\* Whether the song can be laid out as a file: every field its format holds
\* is present, and a legacy file's leading length is not zero.
FileReady(song) ==
    LET h == update(song).header
    IN  /\ is_new(h.format) =>
              /\ h.version_number # None /\ h.vannila_instrument_count # None
              /\ h.song_length # None /\ h.is_loop # None
              /\ h.max_loop_count # None /\ h.loop_start_tick # None
        /\ ~is_new(h.format) => h.old_song_length # 0
        /\ NoteBlocks_encode(song.layers, h.format).res = "Ok"

\* A file holding the song, with k custom instruments, laid out as the
\* decoder reads it.
WireStream(song, k) ==
    LET h == update(song).header
    IN  WireHeader(h) \o NoteBlocks_encode(song.layers, h.format).bytes
        \o WriteAll(CustomInstruments_encode_items(FileCustoms(k)), << >>).bytes

\* ------------------------------------------------------------- the system

\* impl From<i8> for Instrument: ids 0..15 are the built-in instruments.
Instrument_from(id) == IF id >= 0 /\ id <= 15 THEN Vanilla(id) ELSE Custom(id)

\* The notes a caller inserts: with the version-4 fields, and one without.
NoteKinds ==
    { Note_new(Instrument_from(15), 48, Some(100), Some(100), Some(-100)),
      Note_new(Instrument_from(16), 49, Some(100), Some(100), Some(-100)),
      Note_new(Instrument_from(10), 43, None, None, None) }

Ticks == (0 - NegTicks)..MaxTick

RECURSIVE NoteCountFrom(_, _)
NoteCountFrom(layers, i) ==
    IF i > Len(layers) THEN 0
    ELSE Cardinality(DOMAIN layers[i].notes) + NoteCountFrom(layers, i + 1)

NoteCount(layers) == NoteCountFrom(layers, 1)

\* The optional header fields that are public.
PubOptional == {"vannila_instrument_count", "is_loop", "max_loop_count", "loop_start_tick"}

Cleared(h) == Cardinality({f \in PubOptional : h[f] = None})

NoDec == [kind |-> "none", song |-> NoSong]

Editing == op \in {"edit", "update"}

\* The encode loop before its first tick: the next tick is 0 and the tick
\* cursor is -1 (let mut h_cursor: i16 = -1).  h_jumps is the value
\* note_index - h_cursor of the tick visited last, as an integer; jumped is
\* has_jumped_h of that tick.
NoScan == [note_index |-> 0, h_cursor |-> -1, h_jumps |-> 1, jumped |-> FALSE]

Init ==
    /\ \E f \in Formats : nbs = from_componets(Header_new(f), << >>, << >>)
    /\ buf = << >>
    /\ enc = "none"
    /\ dec = NoDec
    /\ op = "edit"
    /\ target = NoteBlockStudio
    /\ scan = NoScan

Edit(song) ==
    /\ Editing
    /\ nbs' = song
    /\ op' = "edit"
    /\ UNCHANGED <<buf, enc, dec, target, scan>>

\* noteblocks.layers.push(Layer::from_format(format)), the caller leaving the
\* layer as created or giving it a volume (layer.volume = Some(100)).
PushLayer ==
    /\ Len(nbs.layers) < MaxLayers
    /\ \E vol \in {from_format(format(nbs)).volume, Some(100)} :
        Edit([nbs EXCEPT !.layers = Append(@, [from_format(format(nbs)) EXCEPT !.volume = vol])])

\* noteblocks.layers.push(Layer::new()), the caller leaving the layer as
\* created or giving it a name (layer.name = "a") or a volume.
PushNewLayer ==
    /\ Len(nbs.layers) < MaxLayers
    /\ \E name \in {<< >>, <<97>>}, vol \in {None, Some(100)} :
        Edit([nbs EXCEPT !.layers = Append(@, [Layer_new EXCEPT !.name = name, !.volume = vol])])

\* noteblocks.layers.pop()
PopLayer ==
    /\ Len(nbs.layers) > 0
    /\ Edit([nbs EXCEPT !.layers = SubSeq(@, 1, Len(@) - 1)])

\* noteblocks.layers[l].notes.insert(t, n)
InsertNote ==
    \E l \in 1..Len(nbs.layers), t \in Ticks, n \in NoteKinds :
        /\ t \in DOMAIN nbs.layers[l].notes \/ NoteCount(nbs.layers) < MaxNotes
        /\ Edit([nbs EXCEPT !.layers[l].notes = Insert(@, t, n)])

\* noteblocks.layers[l].notes.remove(&t)
RemoveNote ==
    \E l \in 1..Len(nbs.layers) : \E t \in DOMAIN nbs.layers[l].notes :
        Edit([nbs EXCEPT !.layers[l].notes = [u \in DOMAIN @ \ {t} |-> @[u]]])

\* header.<field> = None
ClearField ==
    \E f \in PubOptional :
        /\ nbs.header[f] # None
        /\ Cleared(nbs.header) < MaxCleared
        /\ Edit([nbs EXCEPT !.header[f] = None])

\* header.<field> = Some(<the value Header::new gives the field>)
SetField ==
    \E f \in PubOptional :
        /\ nbs.header[f] = None
        /\ Edit([nbs EXCEPT !.header[f] = Header_new(OpenNoteBlockStudio(MaxVersion))[f]])

\* header.format = f
SetFormat ==
    \E f \in Formats :
        /\ f # nbs.header.format
        /\ Edit([nbs EXCEPT !.header.format = f])

\* nbs.update()
Update ==
    /\ Editing
    /\ nbs' = update(nbs)
    /\ op' = "update"
    /\ UNCHANGED <<buf, enc, dec, target, scan>>

\* nbs.encode(&mut file)
Encode ==
    /\ Editing
    /\ LET r == Nbs_encode(nbs) IN buf' = r.bytes /\ enc' = r.res
    /\ op' = "encode"
    /\ target' = format(nbs)
    /\ UNCHANGED <<nbs, dec, scan>>

\* Nbs::decode(&mut file) of the file encode wrote
Decode ==
    /\ op = "encode" /\ enc = "Ok"
    /\ dec' = Nbs_decode(buf)
    /\ op' = "decode"
    /\ UNCHANGED <<nbs, buf, enc, target, scan>>

\* nbs.header.encode(f, &mut file)
HeaderEncode ==
    /\ Editing
    /\ \E f \in Formats :
        /\ LET r == Header_encode(nbs.header, f) IN buf' = r.bytes /\ enc' = r.res
        /\ target' = f
    /\ op' = "header_encode"
    /\ UNCHANGED <<nbs, dec, scan>>

\* What a caller holds after Header::decode returned r = [v, p, e] on a
\* stream of n bytes; "Trailing" when bytes are left unread.
HeaderDecoded(r, n) ==
    IF r.e = "Ok" /\ r.p = n + 1
    THEN [kind |-> "Ok", song |-> from_componets(r.v, << >>, << >>)]
    ELSE [kind |-> IF r.e = "Ok" THEN "Trailing" ELSE r.e, song |-> NoSong]

\* Header::decode(&mut file) of the bytes Header::encode wrote
HeaderDecode ==
    /\ op = "header_encode" /\ enc = "Ok"
    /\ dec' = HeaderDecoded(Header_decode(buf, [p |-> 1, e |-> "Ok"]), Len(buf))
    /\ op' = "header_decode"
    /\ UNCHANGED <<nbs, buf, enc, target, scan>>

\* Nbs::decode(&mut file) of a file holding the song
DecodeFile ==
    /\ Editing
    /\ FileReady(nbs)
    /\ \E k \in 0..MaxCustom :
        /\ buf' = WireStream(nbs, k)
        /\ dec' = Nbs_decode(WireStream(nbs, k))
    /\ enc' = "none"
    /\ op' = "decode_file"
    /\ target' = format(nbs)
    /\ UNCHANGED <<nbs, scan>>

\* let mut nbs = <the decoded song>
Adopt ==
    /\ op \in {"decode", "decode_file"}
    /\ dec.kind = "Ok"
    /\ nbs' = dec.song
    /\ buf' = << >> /\ enc' = "none" /\ dec' = NoDec
    /\ op' = "edit"
    /\ target' = NoteBlockStudio
    /\ UNCHANGED scan

Next ==
    \/ PushLayer
    \/ PopLayer
    \/ InsertNote
    \/ RemoveNote
    \/ Update
    \/ Encode
    \/ Decode
    \/ DecodeFile
    \/ Adopt

Spec == Init /\ [][Next]_vars

\* ------------------------------------------- the header codec on its own

\* The grids of the songs whose headers the header codec is run on: no
\* layer, or one layer holding one note at tick MaxTick.
HeaderGrids ==
    { << >>,
      << [from_format(NoteBlockStudio) EXCEPT
            !.notes = Insert(<< >>, MaxTick, Note_new(Instrument_from(15), 48, None, None, None))] >> }

InitHeader ==
    /\ \E f \in Formats, g \in HeaderGrids : nbs = from_componets(Header_new(f), g, << >>)
    /\ buf = << >>
    /\ enc = "none"
    /\ dec = NoDec
    /\ op = "edit"
    /\ target = NoteBlockStudio
    /\ scan = NoScan

\* let header = <the decoded header>
AdoptHeader ==
    /\ op = "header_decode"
    /\ dec.kind = "Ok"
    /\ nbs' = [nbs EXCEPT !.header = dec.song.header]
    /\ buf' = << >> /\ enc' = "none" /\ dec' = NoDec
    /\ op' = "edit"
    /\ target' = NoteBlockStudio
    /\ UNCHANGED scan

NextHeader ==
    \/ ClearField
    \/ SetField
    \/ SetFormat
    \/ Update
    \/ HeaderEncode
    \/ HeaderDecode
    \/ AdoptHeader

SpecHeader == InitHeader /\ [][NextHeader]_vars

\* --------------------------------------- layers built by hand, and encode

NextLayers ==
    \/ PushLayer
    \/ PushNewLayer
    \/ PopLayer
    \/ InsertNote
    \/ RemoveNote
    \/ Encode

SpecLayers == Init /\ [][NextLayers]_vars

\* ------------------------------------- decode on cut and damaged files

\* The grids of the files: one layer with a note at tick MaxTick, or two
\* layers with a note at tick 0 and a note at tick MaxTick.
StreamGrids(f) ==
    LET layer == [from_format(f) EXCEPT !.volume = Some(100)]
        note == Note_new(Instrument_from(15), 48, Some(100), Some(100), Some(-100))
    IN  { << [layer EXCEPT !.notes = Insert(<< >>, MaxTick, note)] >>,
          << [layer EXCEPT !.notes = Insert(<< >>, 0, note)],
             [layer EXCEPT !.name = <<97>>, !.notes = Insert(<< >>, MaxTick, note)] >> }

InitStream ==
    /\ \E f \in Formats : \E g \in StreamGrids(f) :
           nbs = update(from_componets(Header_new(f), g, << >>))
    /\ buf = << >>
    /\ enc = "none"
    /\ dec = NoDec
    /\ op = "edit"
    /\ target = NoteBlockStudio
    /\ scan = NoScan

\* Nbs::decode(&mut reader) on the bytes of stream.
DecodeStream(stream, how) ==
    /\ buf' = stream
    /\ dec' = Nbs_decode(stream)
    /\ enc' = "none"
    /\ op' = how
    /\ target' = format(nbs)
    /\ UNCHANGED <<nbs, scan>>

\* Nbs::decode of a file holding the song, cut after its first n bytes
DecodeTruncated ==
    /\ Editing
    /\ FileReady(nbs)
    /\ \E k \in 0..MaxCustom : \E n \in 0..(Len(WireStream(nbs, k)) - 1) :
           DecodeStream(SubSeq(WireStream(nbs, k), 1, n), "decode_truncated")

\* The values a damaged byte takes.
DamagedBytes == {0, 255}

\* Nbs::decode of a file holding the song with one byte damaged
DecodeDamaged ==
    /\ Editing
    /\ FileReady(nbs)
    /\ \E k \in 0..MaxCustom : \E i \in 1..Len(WireStream(nbs, k)) : \E v \in DamagedBytes :
           /\ WireStream(nbs, k)[i] # v
           /\ DecodeStream([WireStream(nbs, k) EXCEPT ![i] = v], "decode_damaged")

NextStream ==
    \/ DecodeFile
    \/ DecodeTruncated
    \/ DecodeDamaged

SpecStream == InitStream /\ [][NextStream]_vars

\* ------------------------------------------ the encode loop, tick by tick

\* The largest i16.
MaxI16 == 32767

I16 == (0 - MaxI16 - 1)..MaxI16

\* A layer of the format f holding a note at every tick of T.
RECURSIVE ScanLayer(_, _)
ScanLayer(f, T) ==
    IF T = {} THEN [from_format(f) EXCEPT !.volume = Some(100)]
    ELSE LET t == CHOOSE u \in T : TRUE
         IN  [ScanLayer(f, T \ {t}) EXCEPT
                 !.notes = Insert(@, t, Note_new(Instrument_from(15), 48,
                                                 Some(100), Some(100), Some(-100)))]

\* The grids the loop is followed on: notes at the first tick and at the
\* last ticks an i16 key can name.
ScanGrids(f) ==
    { << ScanLayer(f, {}) >>,
      << ScanLayer(f, {0}) >>,
      << ScanLayer(f, {MaxI16}) >>,
      << ScanLayer(f, {0, MaxI16}) >>,
      << ScanLayer(f, {MaxI16 - 1}) >>,
      << ScanLayer(f, {}), ScanLayer(f, {MaxI16 - 1}) >> }

InitScan ==
    /\ \E f \in {NoteBlockStudio, OpenNoteBlockStudio(MaxVersion)} : \E g \in ScanGrids(f) :
           nbs = from_componets(Header_new(f), g, << >>)
    /\ buf = << >>
    /\ enc = "none"
    /\ dec = NoDec
    /\ op = "edit"
    /\ target = NoteBlockStudio
    /\ scan = NoScan

\* noteblocks.encode(format, &mut writer): entering the loop over the ticks
ScanStart ==
    /\ op = "edit"
    /\ op' = "scan"
    /\ scan' = NoScan
    /\ buf' = << >>
    /\ enc' = "Ok"
    /\ target' = format(nbs)
    /\ UNCHANGED <<nbs, dec>>

\* One tick of the loop with h_jumps as computed: the row of the tick and,
\* if it held a note, the zero that ends it.
ScanRow(h_jumps) ==
    LET row == encode_row(nbs.layers, target, scan.note_index, ToI16(h_jumps), 1,
                   [ items |-> << >>, v_cursor |-> -1,
                     has_jumped_h |-> FALSE, h_cursor |-> scan.h_cursor ])
        w == WriteAll(IF row.has_jumped_h THEN row.items \o << Some(write_i16(0)) >>
                      ELSE row.items, buf)
    IN  /\ buf' = w.bytes
        /\ enc' = w.res
        /\ op' = IF w.res = "Ok" THEN "scan" ELSE "scan_failed"
        /\ scan' = [ note_index |-> scan.note_index + 1, h_cursor |-> row.h_cursor,
                     h_jumps |-> h_jumps, jumped |-> row.has_jumped_h ]

\* One pass of `for note_index in 0..=self.calculate_length()`.  When
\* note_index - h_cursor does not fit an i16 the subtraction panics in a build
\* with overflow checks and wraps in a build without them.
ScanTick ==
    /\ op = "scan"
    /\ scan.note_index <= calculate_length(nbs.layers)
    /\ \/ /\ scan.note_index - scan.h_cursor \notin I16
          /\ op' = "scan_panic"
          /\ scan' = [scan EXCEPT !.h_jumps = scan.note_index - scan.h_cursor]
          /\ UNCHANGED <<buf, enc>>
       \/ ScanRow(scan.note_index - scan.h_cursor)
    /\ UNCHANGED <<nbs, dec, target>>

\* After the loop: the zero tick-jump that ends the grid.
ScanEnd ==
    /\ op = "scan"
    /\ scan.note_index > calculate_length(nbs.layers)
    /\ buf' = buf \o write_i16(0)
    /\ op' = "scanned"
    /\ UNCHANGED <<nbs, enc, dec, target, scan>>

NextScan ==
    \/ ScanStart
    \/ ScanTick
    \/ ScanEnd

SpecScan == InitScan /\ [][NextScan]_vars

\* ================================================================ claims

\* P holds of every note of the song.
AllNotes(song, P(_)) ==
    \A l \in 1..Len(song.layers) : \A t \in DOMAIN song.layers[l].notes :
        P(song.layers[l].notes[t])

\* Some note of the song satisfies P.
SomeNote(song, P(_)) ==
    \E l \in 1..Len(song.layers) : \E t \in DOMAIN song.layers[l].notes :
        P(song.layers[l].notes[t])

\* A decode of a whole file has just returned a song.
Decoded == op \in {"decode", "decode_file"} /\ dec.kind = "Ok"

\* Every optional field the song's format holds is present, in the header, in
\* every layer and in every note, and the header is as update() leaves it.
ValidSong(song) ==
    LET h == song.header
        v == version(h.format)
    IN  /\ is_new(h.format) =>
              /\ h.version_number = Some(v)
              /\ h.vannila_instrument_count # None
              /\ h.is_loop # None /\ h.max_loop_count # None /\ h.loop_start_tick # None
              /\ v >= 3 => h.song_length # None
        /\ \A l \in 1..Len(song.layers) :
              /\ song.layers[l].volume # None
              /\ v >= 2 => song.layers[l].stereo # None
              /\ v >= 4 => song.layers[l].locked # None
        /\ v >= 4 => AllNotes(song, LAMBDA n : n.velocity # None /\ n.panning # None /\ n.pitch # None)
        /\ song = update(song)

\* C1: decoding the bytes encode wrote for a valid song, of any format,
\* succeeds and yields a song equal to the original, field for field.
C1_RoundTrip ==
    (op = "decode" /\ ValidSong(nbs)) => (dec.kind = "Ok" /\ dec.song = nbs)

\* C2: a decoded version-2 song has no velocity, panning or pitch on any note
\* and no lock flag on any layer, and a stereo value on every layer; a decoded
\* version-4 song has all of them on every note and layer.
C2_VersionGating ==
    Decoded =>
        LET song == dec.song
            v == version(song.header.format)
        IN  /\ v = 2 =>
                  /\ AllNotes(song, LAMBDA n : n.velocity = None /\ n.panning = None /\ n.pitch = None)
                  /\ \A l \in 1..Len(song.layers) :
                        song.layers[l].locked = None /\ song.layers[l].stereo # None
            /\ v = 4 =>
                  /\ AllNotes(song, LAMBDA n : n.velocity # None /\ n.panning # None /\ n.pitch # None)
                  /\ \A l \in 1..Len(song.layers) :
                        song.layers[l].locked # None /\ song.layers[l].stereo # None

\* A version-2 file with a layer and a note in it has been decoded.
C2_Witness ==
    /\ Decoded
    /\ dec.song.header.format = OpenNoteBlockStudio(2)
    /\ SomeNote(dec.song, LAMBDA n : n.velocity = None)

\* C3: a decoded note's instrument is custom exactly when its id is at least
\* the vanilla-instrument-count of the header: the stored count for the
\* extended format, 10 for the legacy format.
C3_InstrumentBoundary ==
    Decoded =>
        LET h == dec.song.header
            count == IF is_new(h.format) THEN h.vannila_instrument_count[1] ELSE 10
        IN  /\ AllNotes(dec.song, LAMBDA n : n.instrument.custom <=> (n.instrument.id >= count))
            /\ count = 16 => AllNotes(dec.song, LAMBDA n :
                                 /\ n.instrument.id = 15 => n.instrument = Vanilla(15)
                                 /\ n.instrument.id = 16 => n.instrument = Custom(16))
            /\ ~is_new(h.format) => AllNotes(dec.song, LAMBDA n :
                                 n.instrument.id = 10 => n.instrument = Custom(10))

\* A file with count 16 holding a note of id 15 and a note of id 16 has been
\* decoded.
C3_Witness ==
    /\ Decoded
    /\ dec.song.header.vannila_instrument_count = Some(16)
    /\ SomeNote(dec.song, LAMBDA n : n.instrument = Vanilla(15))
    /\ SomeNote(dec.song, LAMBDA n : n.instrument = Custom(16))

\* A legacy file holding a note of id 10 has been decoded.
LegacyBoundaryReached ==
    /\ Decoded
    /\ ~is_new(dec.song.header.format)
    /\ SomeNote(dec.song, LAMBDA n : n.instrument = Custom(10))

\* ------------------------------------------------------------------- C4

\* A field the target format holds is absent from the header.
MissingRequired(h, f) ==
    \/ h.version_number = None
    \/ h.vannila_instrument_count = None
    \/ version(f) >= 3 /\ h.song_length = None
    \/ h.is_loop = None
    \/ h.max_loop_count = None
    \/ h.loop_start_tick = None

\* The bytes of the header's fields up to the loop fields, by their widths.
BodyLen(h, f) ==
    2 + 1 + 1 + (IF version(f) >= 3 THEN 2 ELSE 0) + 2
    + (4 + Len(h.song_name)) + (4 + Len(h.song_author))
    + (4 + Len(h.original_song_author)) + (4 + Len(h.song_description))
    + 2 + 1 + 1 + 1 + 4 + 4 + 4 + 4 + 4 + (4 + Len(h.imported_file_name))

\* The bytes in front of the first absent field of an extended header.
BytesBeforeMissing(h, f) ==
    IF h.version_number = None THEN 2
    ELSE IF h.vannila_instrument_count = None THEN 3
    ELSE IF version(f) >= 3 /\ h.song_length = None THEN 4
    ELSE IF h.is_loop = None THEN BodyLen(h, f)
    ELSE IF h.max_loop_count = None THEN BodyLen(h, f) + 1
    ELSE BodyLen(h, f) + 2

\* C4: Header::encode for an extended target format fails with InvalidFormat
\* whenever a field that format holds is absent, and the writer has received
\* exactly the fields in front of the absent one: nothing stands in for it.
\* With every field present it succeeds.
C4_MissingField ==
    (op = "header_encode" /\ is_new(target)) =>
        IF MissingRequired(nbs.header, target)
        THEN enc = "InvalidFormat" /\ Len(buf) = BytesBeforeMissing(nbs.header, target)
        ELSE enc = "Ok" /\ Len(buf) = BodyLen(nbs.header, target) + 4

\* Header::encode has run for an extended format on a header whose only
\* absent field is the loop flag.
C4_Witness ==
    /\ op = "header_encode" /\ is_new(target)
    /\ nbs.header.is_loop = None
    /\ nbs.header.version_number # None /\ nbs.header.vannila_instrument_count # None
    /\ nbs.header.song_length # None
    /\ nbs.header.max_loop_count # None /\ nbs.header.loop_start_tick # None
    /\ enc = "InvalidFormat"

\* ------------------------------------------------------------------- C5

OccupiedTicks(layers) == UNION { DOMAIN layers[l].notes : l \in 1..Len(layers) }
OccupiedLayers(layers, t) == { l \in 1..Len(layers) : t \in DOMAIN layers[l].notes }
Least(S) == CHOOSE x \in S : \A y \in S : x <= y

NoteBytes(note, fmt) == WriteAll(note_items(note, fmt), << >>).bytes

\* One row as the claim lays it out: for the occupied layers L in ascending
\* order a layer-jump from the previous one and a note record, then a zero.
RECURSIVE RowBytes(_, _, _, _, _)
RowBytes(layers, fmt, t, L, prev) ==
    IF L = {} THEN write_i16(0)
    ELSE LET l == Least(L)
         IN  write_i16((l - 1) - prev) \o NoteBytes(layers[l].notes[t], fmt)
             \o RowBytes(layers, fmt, t, L \ {l}, l - 1)

\* The grid as the claim lays it out: for the occupied ticks T in ascending
\* order a tick-jump from the previous one and the row, then a zero.
RECURSIVE GridBytes(_, _, _, _)
GridBytes(layers, fmt, T, prev) ==
    IF T = {} THEN write_i16(0)
    ELSE LET t == Least(T)
         IN  write_i16(t - prev) \o RowBytes(layers, fmt, t, OccupiedLayers(layers, t), -1)
             \o GridBytes(layers, fmt, T \ {t}, t)

\* What encode wrote is the header, then the grid as the claim lays it out,
\* then the layer table and the custom instruments.
GridAsClaimed ==
    LET fmt == format(nbs)
        hl == Len(Header_encode(nbs.header, fmt).bytes)
        g == GridBytes(nbs.layers, fmt, OccupiedTicks(nbs.layers), -1)
        rest == WriteAll(layer_table_items(nbs.layers, fmt, 1)
                         \o CustomInstruments_encode_items(nbs.customs), << >>).bytes
    IN  /\ Len(buf) = hl + Len(g) + Len(rest)
        /\ SubSeq(buf, hl + 1, hl + Len(g)) = g
        /\ SubSeq(buf, hl + Len(g) + 1, Len(buf)) = rest

C6_FormatOnWire ==
    (op = "encode" /\ enc = "Ok") =>
        LET first == read_i16(buf, [p |-> 1, e |-> "Ok"]).v
        IN  /\ (first # 0) <=> ~is_new(format(nbs))
            /\ is_new(format(nbs)) => ToI8(buf[3]) = version(format(nbs))

\* ------------------------------------------------------------------- C7

\* The two headers agree on every field the format f holds.
SameFields(a, b, f) ==
    /\ a.format = b.format
    /\ a.old_song_length = b.old_song_length
    /\ a.layer_count = b.layer_count
    /\ a.song_name = b.song_name /\ a.song_author = b.song_author
    /\ a.original_song_author = b.original_song_author
    /\ a.song_description = b.song_description
    /\ a.song_tempo = b.song_tempo /\ a.auto_saving = b.auto_saving
    /\ a.auto_saving_duration = b.auto_saving_duration
    /\ a.time_signature = b.time_signature
    /\ a.minutes_spent = b.minutes_spent /\ a.left_clicks = b.left_clicks
    /\ a.right_clicks = b.right_clicks /\ a.noteblocks_added = b.noteblocks_added
    /\ a.noteblocks_removed = b.noteblocks_removed
    /\ a.imported_file_name = b.imported_file_name
    /\ is_new(f) =>
          /\ a.version_number = b.version_number
          /\ a.vannila_instrument_count = b.vannila_instrument_count
          /\ a.is_loop = b.is_loop /\ a.max_loop_count = b.max_loop_count
          /\ a.loop_start_tick = b.loop_start_tick
    /\ version(f) >= 3 => a.song_length = b.song_length

\* Header::decode has read what Header::encode wrote for the header's own
\* format, the leading field telling the format as the header has it.
MirrorCase ==
    /\ op = "header_decode"
    /\ target = nbs.header.format
    /\ is_new(target) <=> nbs.header.old_song_length = 0
    /\ is_new(target) => nbs.header.version_number = Some(version(target))

\* C7: for every format, Header::decode reads exactly the fields
\* Header::encode wrote, in their order: it succeeds, leaves no byte unread
\* and returns the fields written.
C7_Mirror ==
    MirrorCase => (dec.kind = "Ok" /\ SameFields(dec.song.header, nbs.header, target))

\* ------------------------------------------------------------------- C8

\* C8: the custom instrument at table position i (from 0) is given the id
\* i + the header's vanilla-instrument-count.
C8_CustomIds ==
    Decoded =>
        \A i \in 1..Len(dec.song.customs) :
            dec.song.customs[i].instrument
                = Custom((i - 1) + vannila_instrument_count(dec.song.header).v)

\* ------------------------------------------------------------------- C9

\* The song length the header's format keeps: the legacy length field, or
\* the song-length slot of the extended format.
HeaderSongLength(h) == IF is_new(h.format) THEN h.song_length ELSE Some(h.old_song_length)

\* C9 as stated: after update(), for every format, the layer count, the song
\* length and the version number of the header are those of the song.
C9_EveryFormat ==
    op = "update" =>
        /\ nbs.header.layer_count = Len(nbs.layers)
        /\ HeaderSongLength(nbs.header) = Some(calculate_length(nbs.layers))
        /\ is_new(format(nbs)) => nbs.header.version_number = Some(version(format(nbs)))

\* C9 as amended: the song length is that of the grid for the legacy format
\* and for version >= 3; encode and decode leave the header as it is.
C9_UpdateConsistency ==
    [][ /\ op' = "update" =>
            /\ nbs'.header.layer_count = Len(nbs'.layers)
            /\ (~is_new(format(nbs')) \/ version(format(nbs')) >= 3) =>
                   HeaderSongLength(nbs'.header) = Some(calculate_length(nbs'.layers))
            /\ is_new(format(nbs')) =>
                   nbs'.header.version_number = Some(version(format(nbs')))
        /\ op' \in {"encode", "decode", "decode_file"} => nbs'.header = nbs.header ]_vars

\* update() has run on a version >= 3 song with two layers and a note past
\* tick 0.
C9_Witness ==
    /\ op = "update"
    /\ version(format(nbs)) >= 3
    /\ Len(nbs.layers) = 2
    /\ calculate_length(nbs.layers) > 0
    /\ nbs.header.song_length = Some(calculate_length(nbs.layers))

\* ------------------------------------------------------------------ C10

\* C10: song_ticks returns the legacy length field for the legacy format; for
\* version >= 3 the stored song length (with nothing stored there is no value
\* to return and the call is an error); and for versions 1 and 2 it returns
\* None, never zero, whatever the song-length slot holds.
C10_SongTicks ==
    LET h == nbs.header
        r == song_ticks(h)
    IN  /\ ~is_new(h.format) => r = [v |-> Some(h.old_song_length), e |-> "Ok"]
        /\ (is_new(h.format) /\ version(h.format) >= 3) =>
               IF h.song_length # None
               THEN r.e = "Ok" /\ r.v # None /\ r.v = h.song_length
               ELSE r.e = "InvalidFormat"
        /\ (is_new(h.format) /\ version(h.format) < 3) =>
               r.e = "Ok" /\ r.v = None /\ r.v # Some(0)

\* A version 1 or 2 header, brought up to date by update(), whose song-length
\* slot holds the length of an earlier format of the song.
C10_Witness ==
    /\ op = "update"
    /\ is_new(nbs.header.format) /\ version(nbs.header.format) < 3
    /\ nbs.header.song_length = Some(MaxTick)
    /\ song_ticks(nbs.header).v = None

\* ------------------------------------------------------------------ C11

\* The song is assembled from the constructors for its format: the header of
\* Header::new, layers of Layer::from_format holding notes with velocity,
\* panning and pitch, no custom instruments; and update() has been called.
Constructed(song) ==
    LET f == format(song)
    IN  /\ song = update(from_componets(Header_new(f), song.layers, << >>))
        /\ \A l \in 1..Len(song.layers) :
               [song.layers[l] EXCEPT !.notes = << >>] = from_format(f)
        /\ AllNotes(song, LAMBDA n : n.velocity # None /\ n.panning # None /\ n.pitch # None)

LayerComplete(layer, fmt) ==
    /\ version(fmt) >= 4 => layer.locked # None
    /\ layer.volume # None
    /\ version(fmt) >= 2 => layer.stereo # None

\* The bytes of a layer's fields in the order of the table, up to its first
\* absent field: the name; from version 4 the lock byte; the volume byte, in
\* every format; from version 2 the stereo byte.
LayerPrefix(layer, fmt) ==
    write_string(layer.name) \o
    IF version(fmt) >= 4 /\ layer.locked = None THEN << >>
    ELSE (IF version(fmt) >= 4 THEN write_i8(BoolByte(layer.locked[1])) ELSE << >>) \o
         IF layer.volume = None THEN << >>
         ELSE write_i8(layer.volume[1]) \o
              IF version(fmt) >= 2 /\ layer.stereo # None
              THEN write_i8(layer.stereo[1]) ELSE << >>

\* The layer table up to the first absent field of its first incomplete layer.
RECURSIVE TableBytes(_, _, _)
TableBytes(layers, fmt, i) ==
    IF i > Len(layers) THEN << >>
    ELSE IF LayerComplete(layers[i], fmt)
         THEN LayerPrefix(layers[i], fmt) \o TableBytes(layers, fmt, i + 1)
         ELSE LayerPrefix(layers[i], fmt)

\* encode has written the header and the grid and come to the layer table.
TableReached ==
    /\ op = "encode"
    /\ WriteAll(   Header_encode_items(nbs.header, target)
                \o grid_items(nbs.layers, target), << >>).res = "Ok"

OutOfRangeWritten ==
    /\ op = "decode"
    /\ Header_decode(buf, [p |-> 1, e |-> "Ok"]).e = "Ok"
    /\ Header_decode(buf, [p |-> 1, e |-> "Ok"]).v.layer_count = nbs.header.layer_count
    /\ \E l \in 1..Len(nbs.layers) :
           /\ l - 1 >= nbs.header.layer_count
           /\ \E t \in DOMAIN nbs.layers[l].notes : t >= 0

\* C13: decode sets up exactly header.layer_count layers, and a note record
\* whose layer cursor is at or past the layer count makes it return the
\* InvalidFormat error: it does not abort, store the note or add a layer.
C13_LayerBounds ==
    /\ OutOfRangeWritten => dec.kind = "InvalidFormat"
    /\ op \in {"decode", "decode_file"} =>
           /\ dec.kind # "Panic"
           /\ dec.kind = "Ok" => Len(dec.song.layers) = dec.song.header.layer_count

\* ------------------------------------------------------------------ C14

\* C14: on every byte stream Nbs::decode returns: a complete song, or an
\* error and no song; and on a stream that ends before a field decode needs,
\* the error is the I/O error.
C14_NoPartialSuccess ==
    op \in {"decode_file", "decode_truncated", "decode_damaged"} =>
        /\ dec.kind \in {"Ok", "IoError", "InvalidString", "InvalidFormat"}
        /\ dec.kind # "Ok" => dec.song = NoSong
        /\ op = "decode_truncated" => dec.kind = "IoError"

\* ------------------------------------------------------------------ C15

Greatest(S) == CHOOSE x \in S : \A y \in S : y <= x

\* C15 as stated: calculate_length is the greatest tick of any note of the
\* grid, 0 for a grid without notes, so every note lies at a tick within
\* 0..=calculate_length() and the loop of encode comes to it.
C15_EveryNote ==
    LET T == OccupiedTicks(nbs.layers)
        len == calculate_length(nbs.layers)
    IN  /\ len = IF T = {} THEN 0 ELSE Greatest(T)
        /\ \A t \in T : t \in 0..len /\ t \in 0..EncodeLoopEnd(nbs.layers)

\* C15 as amended: calculate_length is the greatest tick >= 0 of any note of
\* the grid, 0 when no note lies at a tick >= 0; every note at a tick >= 0
\* lies within 0..=calculate_length() and the loop of encode comes to it; a
\* note at a negative tick lies outside and the loop does not come to it.
C15_CalculateLength ==
    LET T == OccupiedTicks(nbs.layers)
        NonNeg == { t \in T : t >= 0 }
        len == calculate_length(nbs.layers)
    IN  /\ len = IF NonNeg = {} THEN 0 ELSE Greatest(NonNeg)
        /\ \A t \in NonNeg : t \in 0..len /\ t \in 0..EncodeLoopEnd(nbs.layers)
        /\ \A t \in T \ NonNeg : t \notin 0..EncodeLoopEnd(nbs.layers)
        /\ (op = "update" /\ version(format(nbs)) >= 3) => nbs.header.song_length = Some(len)

\* update() has measured a grid of two layers whose greatest tick is in the
\* first layer and whose second layer holds a note at a lower tick.
C15_Witness ==
    /\ op = "update"
    /\ version(format(nbs)) >= 3
    /\ Len(nbs.layers) = 2
    /\ MaxTick \in DOMAIN nbs.layers[1].notes
    /\ DOMAIN nbs.layers[2].notes = {0}
    /\ nbs.header.song_length = Some(MaxTick)

\* ------------------------------------------------------------------ C16

\* The layer-jumps of the row of tick t, as integers: for every occupied
\* layer its index less the index of the occupied layer before it, -1 for
\* the first.
LayerJumps(layers, t) ==
    LET L == OccupiedLayers(layers, t)
    IN  { (l - 1) - (IF \E k \in L : k < l
                     THEN Greatest({ k \in L : k < l }) - 1 ELSE -1) : l \in L }

\* C16: for a grid whose notes lie at ticks 0..=32767, the tick-jump computed
\* at every tick of the scan and every layer-jump fit an i16 without
\* wrapping, and a jump written before a note is >= 1.
C16_JumpsInRange ==
    (op \in {"scan", "scan_panic", "scanned"}
        /\ \A t \in OccupiedTicks(nbs.layers) : t \in 0..MaxI16) =>
        /\ scan.h_jumps \in I16
        /\ scan.jumped => ToI16(scan.h_jumps) >= 1
        /\ \A j \in LayerJumps(nbs.layers, scan.note_index - 1) : j \in 1..MaxI16

====
